---------------------------- MODULE Spec2Model ----------------------------
(***************************************************************************)
(* Model of app/utils/minio_client.py: the profile picture upload          *)
(* pipeline (module initialisation, upload, allowed_file, resize_image).   *)
(*                                                                         *)
(* Python strings are sequences of one-character strings, so that split,   *)
(* rsplit and lower are computed and not assumed.                          *)
(***************************************************************************)
EXTENDS Integers, Sequences, FiniteSets, TLC

VARIABLES
    af_name,        \* allowed_file: the filename it is applied to
    af_ret,         \* allowed_file: its return value ("pending" before the call)
    rz_in,          \* resize_image: the decoded source image and the box
    rz_out,         \* resize_image: the image it saves ("pending" before the call)
    modpc,          \* position of the module's import-time code
    minio_client,   \* the module-level client handle
    bucketExists,   \* storage server: whether the bucket exists
    bucket,         \* storage server: object key -> stored object
    srvlog,         \* storage server: the client calls received, in order
    fs,             \* local filesystem: path -> content
    calls           \* the upload calls: id -> record

vars == <<af_name, af_ret, rz_in, rz_out, modpc, minio_client, bucketExists,
          bucket, srvlog, fs, calls>>

----------------------------------------------------------------------------
(* Bounds of the model *)

\* longest filename allowed_file is applied to
MaxLen == 5
\* largest source image side given to resize_image
MaxDim == 5
\* largest side of the bounding box given to resize_image
MaxBox == 3
\* number of upload calls of one run
MaxCalls == 2

----------------------------------------------------------------------------
(* Python string helpers *)

\* the absence value upload returns, as a one-token string
None == <<"None">>

\* str.lower on one character (the letters the model's filenames use)
LowerChar(c) ==
    CASE c = "P" -> "p"
      [] c = "N" -> "n"
      [] c = "G" -> "g"
      [] c = "J" -> "j"
      [] c = "E" -> "e"
      [] OTHER -> c

\* str.lower
Lower(s) == [i \in 1..Len(s) |-> LowerChar(s[i])]

\* "." in s
HasDot(s) == \E i \in 1..Len(s) : s[i] = "."

\* s.rsplit(".", 1)[-1]: scan from the right for the first separator
RECURSIVE RSplitLast(_, _)
RSplitLast(s, i) ==
    IF i = 0 THEN s
    ELSE IF s[i] = "." THEN SubSeq(s, i + 1, Len(s))
    ELSE RSplitLast(s, i - 1)

\* s.split("."): all the pieces, left to right
RECURSIVE Split(_, _, _)
Split(s, i, cur) ==
    IF i > Len(s) THEN <<cur>>
    ELSE IF s[i] = "." THEN <<cur>> \o Split(s, i + 1, <<>>)
    ELSE Split(s, i + 1, Append(cur, s[i]))

\* s.split(".")[-1]
SplitLast(s) == LET parts == Split(s, 1, <<>>) IN parts[Len(parts)]

----------------------------------------------------------------------------
(* allowed_file *)

\* the allow-list with one extension too many
ALLOWED_EXTENSIONS_Txt ==
    { <<"p","n","g">>, <<"j","p","g">>, <<"j","p","e","g">>, <<"t","x","t">> }

ALLOWED_EXTENSIONS == { <<"p","n","g">>, <<"j","p","g">>, <<"j","p","e","g">> }

\* the extension allowed_file takes with a wrong split: the text after the
\* FIRST "." (a plausible slip: split(".", 1)[-1] for rsplit(".", 1)[-1])
RECURSIVE SplitFirstRest(_, _)
SplitFirstRest(s, i) ==
    IF i > Len(s) THEN s
    ELSE IF s[i] = "." THEN SubSeq(s, i + 1, Len(s))
    ELSE SplitFirstRest(s, i + 1)

allowed_file_FirstDot(filename) ==
    IF filename = <<>> THEN FALSE
    ELSE LET extension == IF HasDot(filename)
                          THEN Lower(SplitFirstRest(filename, 1))
                          ELSE <<>>
         IN extension \in ALLOWED_EXTENSIONS

\* "not file.filename" holds of the empty filename (and of a missing one, which
\* the model does not tell apart from the empty one)
allowed_file(filename) ==
    IF filename = <<>> THEN FALSE
    ELSE LET extension == IF HasDot(filename)
                          THEN Lower(RSplitLast(filename, Len(filename)))
                          ELSE <<>>
         IN extension \in ALLOWED_EXTENSIONS

----------------------------------------------------------------------------
(* resize_image: the image operations *)

\* EXIF orientation tag
orientation == 274

Abs(n) == IF n < 0 THEN -n ELSE n
Max2(a, b) == IF a >= b THEN a ELSE b

\* Image.rotate(angle, expand): a multiple of 90 degrees is a transpose; with
\* expand the canvas takes the rotated content's size, without it the canvas
\* keeps its size and a non-square image is cropped
rotate(img, angle, expand) ==
    LET w == img.size[1]
        h == img.size[2]
        quarter == angle \in {90, 270}
    IN [img EXCEPT
          !.size = IF quarter /\ expand THEN <<h, w>> ELSE <<w, h>>,
          !.rot = (img.rot + angle) % 360,
          !.cropped = img.cropped \/ (quarter /\ ~expand /\ w # h),
          !.ops = Append(img.ops, <<"rotate", angle, IF expand THEN 1 ELSE 0>>)]

\* ceil(num / den)
CeilDiv(num, den) == IF num % den = 0 THEN num \div den ELSE (num \div den) + 1

\* Image.thumbnail(size): the size it resizes to (preserve_aspect_ratio), in
\* exact arithmetic. aspect = w / h; the box is (x, y).
\* round_aspect(number, key) = max(min(floor(number), ceil(number), key=key), 1),
\* and min keeps the first of two equal keys.
thumbnail_size(sz, box) ==
    LET w == sz[1]
        h == sz[2]
        x == box[1]
        y == box[2]
        \* number = y * aspect; key(n) = abs(aspect - n / y), compared times h * y
        xf == (y * w) \div h
        xc == CeilDiv(y * w, h)
        newx == IF Abs(w * y - xf * h) <= Abs(w * y - xc * h) THEN xf ELSE xc
        \* number = x / aspect; key(n) = 0 if n == 0 else abs(aspect - x / n),
        \* compared times h * floor * ceil
        yf == (x * h) \div w
        yc == CeilDiv(x * h, w)
        newy == IF yf = 0 THEN yf
                ELSE IF Abs(w * yf - x * h) * yc <= Abs(w * yc - x * h) * yf
                THEN yf ELSE yc
    IN IF x >= w /\ y >= h THEN sz
       ELSE IF x * h >= w * y
            THEN <<Max2(newx, 1), y>>
            ELSE <<x, Max2(newy, 1)>>

thumbnail(img, box) ==
    [img EXCEPT !.size = thumbnail_size(img.size, box),
                !.ops = Append(img.ops, <<"thumbnail", box[1], box[2]>>)]

\* Image.resize(size): the exact size, whatever the source
resize_exact(img, box) ==
    [img EXCEPT !.size = box,
                !.ops = Append(img.ops, <<"resize", box[1], box[2]>>)]

\* modes are strings of band letters
RGB  == <<"R","G","B">>
RGBA == <<"R","G","B","A">>
L    == <<"L">>
LA   == <<"L","A">>

\* Image.new(mode, size, (255, 255, 255)): a three-element colour fills a
\* multi-band image; for a single-band mode the library raises TypeError
\* ("color must be int or single-element tuple")
new_white_raises(mode) == Len(mode) = 1

\* lines 137-140: composite onto a white background of mode[:-1], the last
\* band (img.split()[-1]) being the mask
flatten(img) ==
    [img EXCEPT !.mode = SubSeq(img.mode, 1, Len(img.mode) - 1),
                !.white = TRUE,
                !.mask = img.mode[Len(img.mode)],
                !.ops = Append(img.ops, <<"paste", 0, 0>>)]

\* "hasattr(img, '_getexif') and img._getexif()": the attribute exists, the
\* call returns a dict and the dict is not empty
exif_truthy(img) ==
    img.hasGetexif /\ img.exifDict /\ DOMAIN img.exif # {}

\* lines 122-131 with the angles of the orientations 6 and 8 exchanged
orient_Swapped(img) ==
    IF exif_truthy(img)
    THEN IF orientation \in DOMAIN img.exif
         THEN IF img.exif[orientation] = 3 THEN rotate(img, 180, TRUE)
              ELSE IF img.exif[orientation] = 6 THEN rotate(img, 90, TRUE)
              ELSE IF img.exif[orientation] = 8 THEN rotate(img, 270, TRUE)
              ELSE img
         ELSE img
    ELSE img

\* lines 122-131
orient(img) ==
    IF exif_truthy(img)
    THEN IF orientation \in DOMAIN img.exif
         THEN IF img.exif[orientation] = 3 THEN rotate(img, 180, TRUE)
              ELSE IF img.exif[orientation] = 6 THEN rotate(img, 270, TRUE)
              ELSE IF img.exif[orientation] = 8 THEN rotate(img, 90, TRUE)
              ELSE img
         ELSE img
    ELSE img

\* lines 133-134 with Image.resize for Image.thumbnail, and with no call at all
downscale_Resize(img, sz) == resize_exact(img, sz)
downscale_None(img, sz) == img

\* lines 133-134
downscale(img, sz) == thumbnail(img, sz)

\* lines 136-140: [raised, img]
flatten_alpha(b) ==
    IF b.mode \in {RGBA, LA}
    THEN IF new_white_raises(SubSeq(b.mode, 1, Len(b.mode) - 1))
         THEN [raised |-> TRUE, img |-> b]
         ELSE [raised |-> FALSE, img |-> flatten(b)]
    ELSE [raised |-> FALSE, img |-> b]

\* lines 121-140 of resize_image on a decoded image: [raised, img]
normalize(img, sz) == flatten_alpha(downscale(orient(img), sz))

----------------------------------------------------------------------------
(* upload: names, paths and the local filesystem *)

\* settings.MINIO_ENDPOINT and settings.MINIO_BUCKET_NAME: opaque tokens
MINIO_ENDPOINT == <<"{endpoint}">>
MINIO_BUCKET_NAME == <<"{bucket}">>

Tmp == <<"/","t","m","p","/">>

\* str(user_id) of the users of the model (a UUID holds no "." and no "/")
Users == { <<"u","1">>, <<"u","2">> }

\* the filenames uploads come with: two allowed extensions, one that makes
\* the raw path equal user u1's normalized path, a disallowed extension, the
\* empty name, a name with no ".", and a name in a directory /tmp lacks
Filenames ==
    { <<"a",".","p","n","g">>, <<"a",".","J","P","G">>,
      <<"u","1",".","p","n","g">>, <<"d",".","t","x","t">>, <<>>, <<"x">>,
      <<"x","/","a",".","p","n","g">> }

\* the bytes an upload comes with: an image, or bytes no decoder accepts
Payloads == {"img", "junk"}

NoImg == [size |-> <<0, 0>>, mode |-> <<>>, hasGetexif |-> FALSE,
          exifDict |-> FALSE, exif |-> <<>>, rot |-> 0, cropped |-> FALSE,
          white |-> FALSE, mask |-> "none", ops |-> <<>>]

\* the image of an "img" payload: 400x300, RGBA, EXIF orientation 6
PayloadImg ==
    [NoImg EXCEPT !.size = <<400, 300>>, !.mode = RGBA, !.hasGetexif = TRUE,
                  !.exifDict = TRUE, !.exif = (orientation :> 6)]

Empty == [kind |-> "empty", src |-> 0, img |-> NoImg]

\* the bytes call c submits
RawContent(c, data) ==
    [kind |-> data, src |-> c, img |-> IF data = "img" THEN PayloadImg ELSE NoImg]

\* open(path, "wb") raises when the directory of the path does not exist
OpenFails(filename) == \E i \in 1..Len(filename) : filename[i] = "/"

\* writing a whole file; an existing file keeps its inode
Write(fsys, path, content) == (path :> content) @@ fsys

\* os.remove of an existing path
Remove(fsys, path) == [q \in DOMAIN fsys \ {path} |-> fsys[q]]

\* line 60
file_path_of(filename) == Tmp \o filename

\* lines 143-144: the path resize_image saves to
output_path_of(image_path, user_id) ==
    Tmp \o user_id \o <<".">> \o Lower(SplitLast(image_path))

\* the object name without ".lower()"
image_name_NoLower(user_id, filename) ==
    user_id \o <<".">> \o SplitLast(filename)

\* lines 69-70
image_name_of(user_id, filename) ==
    user_id \o <<".">> \o Lower(SplitLast(filename))

\* line 84
url_of(image_name) ==
    <<"http://">> \o MINIO_ENDPOINT \o <<"/">> \o MINIO_BUCKET_NAME
        \o <<"/">> \o image_name

\* line 65
size == <<200, 200>>

\* lines 142-147: save the normalized image n of the file at image_path
save_image(fsys, image_path, out, n) ==
    IF n.raised
    THEN [exc |-> "TypeError", path |-> out, fs |-> fsys, saved |-> FALSE]
    ELSE [exc |-> "none", path |-> out, saved |-> TRUE,
          fs |-> Write(fsys, out, [kind |-> "norm",
                                   src |-> fsys[image_path].src,
                                   img |-> n.img])]

\* lines 119-150 with the output path out
resize_to(fsys, image_path, sz, out) ==
    IF image_path \notin DOMAIN fsys
    THEN [exc |-> "FileNotFoundError", path |-> out, fs |-> fsys,
          saved |-> FALSE]
    ELSE IF fsys[image_path].kind \notin {"img", "norm"}
    THEN [exc |-> "UnidentifiedImageError", path |-> out, fs |-> fsys,
          saved |-> FALSE]
    ELSE save_image(fsys, image_path, out,
                    normalize(fsys[image_path].img, sz))

\* resize_image with "raise" (line 150) left out: the exception is printed
\* and the function returns None
resize_image_Swallow(fsys, image_path, sz, user_id) ==
    [resize_to(fsys, image_path, sz, output_path_of(image_path, user_id))
        EXCEPT !.exc = "none"]

\* resize_image(image_path, size, user_id) on the filesystem fsys:
\* [exc, path, fs, saved]. Image.open raises on a missing file and on bytes that are
\* no image; every exception is re-raised (lines 148-150).
resize_image(fsys, image_path, sz, user_id) ==
    resize_to(fsys, image_path, sz, output_path_of(image_path, user_id))

\* lines 85-90: what upload returns when exc was raised in its try block;
\* Exceptions are the subclasses of Exception the model raises
Exceptions == {"S3Error", "FileNotFoundError", "UnidentifiedImageError",
               "TypeError"}

\* the handler with "except Exception" (lines 88-90) left out
handler_OnlyS3(exc) ==
    IF exc = "S3Error" THEN None ELSE <<"raised", exc>>

handler(exc) ==
    IF exc = "S3Error" THEN None
    ELSE IF exc \in Exceptions THEN None
    ELSE <<"raised", exc>>

\* minio_client.fput_object(bucket, name, path): [exc, bucket]. The client
\* reads the file first; the server answers srv ("ok" or "S3Error") and
\* refuses an object for a bucket that does not exist.
fput_object(bkt, exists, fsys, name, path, srv) ==
    IF path \notin DOMAIN fsys
    THEN [exc |-> "FileNotFoundError", bucket |-> bkt]
    ELSE IF srv # "ok" \/ ~exists
    THEN [exc |-> "S3Error", bucket |-> bkt]
    ELSE [exc |-> "none", bucket |-> (name :> fsys[path]) @@ bkt]

\* lines 79-81 with line 81 left out: the normalized copy is not removed
cleanup_KeepResized(fsys, file_path, resized_image_path) ==
    IF file_path \notin DOMAIN fsys
    THEN [exc |-> "FileNotFoundError", fs |-> fsys, removed |-> {}]
    ELSE [exc |-> "none", fs |-> Remove(fsys, file_path),
          removed |-> {file_path}]

\* lines 79-81: [exc, fs, removed]
cleanup(fsys, file_path, resized_image_path) ==
    IF file_path \notin DOMAIN fsys
    THEN [exc |-> "FileNotFoundError", fs |-> fsys, removed |-> {}]
    ELSE LET f1 == Remove(fsys, file_path)
         IN IF resized_image_path \notin DOMAIN f1
            THEN [exc |-> "FileNotFoundError", fs |-> f1,
                  removed |-> {file_path}]
            ELSE [exc |-> "none", fs |-> Remove(f1, resized_image_path),
                  removed |-> {file_path, resized_image_path}]

\* what a call leaves behind: [ret, exc, fs, bucket, puts, stored, trace,
\* removed]
Outcome(ret, exc, fsys, bkt, puts, stored, trace, removed) ==
    [ret |-> ret, exc |-> exc, fs |-> fsys, bucket |-> bkt, puts |-> puts,
     stored |-> stored, trace |-> trace, removed |-> removed]

\* lines 83-84 (and 88-90 when a removal raised)
upload_return(self, bkt, name, cl) ==
    IF cl.exc # "none"
    THEN Outcome(handler(cl.exc), cl.exc, cl.fs, bkt, <<name>>, TRUE,
                 self.trace \o <<"store", "cleanup_failed">>, cl.removed)
    ELSE Outcome(url_of(name), "none", cl.fs, bkt, <<name>>, TRUE,
                 self.trace \o <<"store", "cleanup">>,
                 cl.removed)

\* lines 79-81 (and 85-87 when fput_object raised)
upload_cleanup(self, rz, name, put) ==
    IF put.exc # "none"
    THEN Outcome(handler(put.exc), put.exc, rz.fs, put.bucket, <<name>>, FALSE,
                 Append(self.trace, "store_failed"), {})
    ELSE upload_return(self, put.bucket, name,
                       cleanup(rz.fs, file_path_of(self.filename), rz.path))

\* lines 68-77 (and 88-90 when resize_image raised)
upload_store(self, rz, bkt, exists, srv, name) ==
    IF rz.exc # "none"
    THEN Outcome(handler(rz.exc), rz.exc, rz.fs, bkt, <<>>, FALSE,
                 self.trace \o <<"write", "normalize_failed">>, {})
    ELSE upload_cleanup([self EXCEPT !.trace =
                            self.trace \o <<"write", IF rz.saved
                                                     THEN "normalize"
                                                     ELSE "normalize_failed">>],
                        rz, name,
                        fput_object(bkt, exists, rz.fs, name, rz.path, srv))

\* lines 64-66
upload_resize(self, f1, bkt, exists, srv) ==
    upload_store(self,
                 resize_image(f1, file_path_of(self.filename), size, self.user),
                 bkt, exists, srv, image_name_of(self.user, self.filename))

\* lines 62-90, from the moment file.read() has returned to the return of
\* upload. buffer.write goes into the inode opened at line 61, which is the
\* file at file_path unless that name was removed since. A decoder reads one
\* image and ignores what follows it, so what a longer earlier content leaves
\* behind the written bytes is not modelled.
upload_rest(c, self, fsys, bkt, exists, srv) ==
    upload_resize(self,
                  IF self.linked
                  THEN Write(fsys, file_path_of(self.filename),
                             RawContent(c, self.data))
                  ELSE fsys,
                  bkt, exists, srv)

----------------------------------------------------------------------------
(* The upload pipeline as a state machine *)

Pending == <<"pending">>

CallIds == 1..MaxCalls

IdleCall == [pc |-> "idle", user |-> <<>>, filename |-> <<>>, data |-> "none",
             linked |-> FALSE, ret |-> Pending, exc |-> "none", puts |-> <<>>,
             stored |-> FALSE, trace |-> <<>>]

\* the variables of the pure-function specifications, parked
Parked ==
    /\ af_name = <<>>
    /\ af_ret = "parked"
    /\ rz_in = "parked"
    /\ rz_out = "parked"

Init ==
    /\ Parked
    /\ modpc = "client"
    /\ minio_client = "unset"
    /\ bucketExists \in BOOLEAN
    /\ bucket = <<>>
    /\ srvlog = <<>>
    /\ fs = <<>>
    /\ calls = [c \in CallIds |-> IdleCall]

\* lines 11-23: Minio(...) returns a client or raises
ImportClient ==
    /\ modpc = "client"
    /\ \E ok \in BOOLEAN :
         minio_client' = IF ok THEN "client" ELSE "None"
    /\ modpc' = "bucket"
    /\ UNCHANGED <<af_name, af_ret, rz_in, rz_out, bucketExists, bucket,
                   srvlog, fs, calls>>

\* lines 25-32: only S3Error is caught; any other exception (the attribute
\* lookup on None, a connection error) ends the import
ImportBucket ==
    /\ modpc = "bucket"
    /\ IF minio_client = "None"
       THEN /\ modpc' = "import_error"
            /\ UNCHANGED <<bucketExists, srvlog>>
       ELSE \E be \in {"answer", "S3Error", "ConnectionError"},
               mk \in {"ok", "S3Error", "ConnectionError"} :
              IF be = "answer" /\ ~bucketExists
              THEN /\ srvlog' = srvlog \o <<"bucket_exists", "make_bucket">>
                   /\ bucketExists' = (mk = "ok")
                   /\ modpc' = IF mk = "ConnectionError" THEN "import_error"
                               ELSE "loaded"
              ELSE /\ srvlog' = Append(srvlog, "bucket_exists")
                   /\ UNCHANGED bucketExists
                   /\ modpc' = IF be = "ConnectionError" THEN "import_error"
                               ELSE "loaded"
    /\ UNCHANGED <<af_name, af_ret, rz_in, rz_out, minio_client, bucket, fs,
                   calls>>

\* lines 49-62: upload up to the suspension at "await file.read()"
UploadBegin(c) ==
    /\ modpc = "loaded"
    /\ calls[c].pc = "idle"
    /\ IF c = 1 THEN TRUE ELSE calls[c - 1].pc # "idle"
    /\ \E user \in Users, filename \in Filenames, data \in Payloads :
         LET self == [IdleCall EXCEPT !.user = user, !.filename = filename,
                                      !.data = data]
             file_path == file_path_of(filename)
         IN IF minio_client = "None"
            THEN /\ calls' = [calls EXCEPT ![c] =
                        [self EXCEPT !.pc = "done", !.ret = None,
                                     !.trace = <<"no_client">>]]
                 /\ UNCHANGED fs
            ELSE IF ~allowed_file(filename)
            THEN /\ calls' = [calls EXCEPT ![c] =
                        [self EXCEPT !.pc = "done", !.ret = None,
                                     !.trace = <<"rejected">>]]
                 /\ UNCHANGED fs
            ELSE IF OpenFails(filename)
            THEN /\ calls' = [calls EXCEPT ![c] =
                        [self EXCEPT !.pc = "done",
                                     !.exc = "FileNotFoundError",
                                     !.ret = handler("FileNotFoundError"),
                                     !.trace = <<"validate", "open_failed">>]]
                 /\ UNCHANGED fs
            ELSE /\ calls' = [calls EXCEPT ![c] =
                        [self EXCEPT !.pc = "reading", !.linked = TRUE,
                                     !.trace = <<"validate", "open">>]]
                 /\ fs' = Write(fs, file_path, Empty)
    /\ UNCHANGED <<af_name, af_ret, rz_in, rz_out, modpc, minio_client,
                   bucketExists, bucket, srvlog>>

\* the state after call c has ended with outcome r: a removed name leaves
\* the other calls' open files without a name
Commit(c, r) ==
    /\ fs' = r.fs
    /\ bucket' = r.bucket
    /\ calls' = [d \in CallIds |->
         IF d = c
         THEN [calls[c] EXCEPT !.pc = "done", !.ret = r.ret, !.exc = r.exc,
                               !.puts = r.puts, !.stored = r.stored,
                               !.trace = r.trace, !.linked = FALSE]
         ELSE IF calls[d].pc = "reading"
                 /\ file_path_of(calls[d].filename) \in r.removed
         THEN [calls[d] EXCEPT !.linked = FALSE]
         ELSE calls[d]]

\* lines 62-90: upload from the return of file.read() to its own return
UploadResume(c) ==
    /\ calls[c].pc = "reading"
    /\ \E srv \in {"ok", "S3Error"} :
         Commit(c, upload_rest(c, calls[c], fs, bucket, bucketExists, srv))
    /\ UNCHANGED <<af_name, af_ret, rz_in, rz_out, modpc, minio_client,
                   bucketExists, srvlog>>

Next ==
    \/ ImportClient
    \/ ImportBucket
    \/ \E c \in CallIds : UploadBegin(c)
    \/ \E c \in CallIds : UploadResume(c)

Spec == Init /\ [][Next]_vars

----------------------------------------------------------------------------
(* allowed_file applied to every filename up to MaxLen characters *)

Chars == {".", "p", "n", "g", "J", "e"}

Names == UNION { [1..n -> Chars] : n \in 0..MaxLen }

\* the variables of the upload pipeline, parked
ParkedUpload ==
    /\ modpc = "parked"
    /\ minio_client = "unset"
    /\ bucketExists = FALSE
    /\ bucket = <<>>
    /\ srvlog = <<>>
    /\ fs = <<>>
    /\ calls = <<>>

InitAllowed ==
    /\ af_name \in Names
    /\ af_ret = <<>>
    /\ rz_in = "parked"
    /\ rz_out = "parked"
    /\ ParkedUpload

CallAllowed ==
    /\ af_ret = <<>>
    /\ af_ret' = <<allowed_file(af_name)>>
    /\ UNCHANGED <<af_name, rz_in, rz_out, modpc, minio_client, bucketExists,
                   bucket, srvlog, fs, calls>>

SpecAllowed == InitAllowed /\ [][CallAllowed]_vars

----------------------------------------------------------------------------
(* resize_image applied to every decoded image up to MaxDim x MaxDim and *)
(* every box up to MaxBox x MaxBox                                       *)

\* a tag other than the orientation tag
OtherTags == {306}

\* what hasattr(img, "_getexif") and img._getexif() can be: no attribute
\* (with and without an orientation in the file), None, an empty dict, a
\* dict without the orientation tag, a dict with it
ExifCases ==
    { [hasGetexif |-> FALSE, exifDict |-> FALSE, exif |-> <<>>],
      [hasGetexif |-> FALSE, exifDict |-> TRUE, exif |-> (orientation :> 6)],
      [hasGetexif |-> TRUE, exifDict |-> FALSE, exif |-> <<>>],
      [hasGetexif |-> TRUE, exifDict |-> TRUE, exif |-> <<>>] }
    \cup { [hasGetexif |-> TRUE, exifDict |-> TRUE, exif |-> (t :> 6)] :
             t \in OtherTags }
    \cup { [hasGetexif |-> TRUE, exifDict |-> TRUE, exif |-> (orientation :> v)] :
             v \in {1, 2, 3, 6, 8} }

Modes == {RGB, RGBA, LA}

Sources ==
    { [NoImg EXCEPT !.size = <<w, h>>, !.mode = m,
                    !.hasGetexif = e.hasGetexif, !.exifDict = e.exifDict,
                    !.exif = e.exif] :
        w \in 1..MaxDim, h \in 1..MaxDim, m \in Modes, e \in ExifCases }

InitResize ==
    /\ rz_in \in [img : Sources, box : (1..MaxBox) \X (1..MaxBox)]
    /\ rz_out = <<>>
    /\ af_name = <<>>
    /\ af_ret = "parked"
    /\ ParkedUpload

CallResize ==
    /\ rz_out = <<>>
    /\ rz_out' = <<normalize(rz_in.img, rz_in.box)>>
    /\ UNCHANGED <<af_name, af_ret, rz_in, modpc, minio_client, bucketExists,
                   bucket, srvlog, fs, calls>>

SpecResize == InitResize /\ [][CallResize]_vars

----------------------------------------------------------------------------
(* What the claims are stated with *)

IsPng(t) ==
    /\ Len(t) = 3
    /\ t[1] \in {"p", "P"} /\ t[2] \in {"n", "N"} /\ t[3] \in {"g", "G"}

IsJpg(t) ==
    /\ Len(t) = 3
    /\ t[1] \in {"j", "J"} /\ t[2] \in {"p", "P"} /\ t[3] \in {"g", "G"}

IsJpeg(t) ==
    /\ Len(t) = 4
    /\ t[1] \in {"j", "J"} /\ t[2] \in {"p", "P"}
    /\ t[3] \in {"e", "E"} /\ t[4] \in {"g", "G"}

\* F holds a "." and the text after its last "." is png, jpg or jpeg in any case
ExpectAllowed(F) ==
    \E i \in 1..Len(F) :
        /\ F[i] = "."
        /\ \A j \in (i + 1)..Len(F) : F[j] # "."
        /\ \/ IsPng(SubSeq(F, i + 1, Len(F)))
           \/ IsJpg(SubSeq(F, i + 1, Len(F)))
           \/ IsJpeg(SubSeq(F, i + 1, Len(F)))

\* the lowercase extension of an allowed filename
ExpectExt(F) ==
    Lower(RSplitLast(F, Len(F)))

\* the object key the spec gives user U and filename F
ExpectKey(U, F) == U \o <<".">> \o ExpectExt(F)

ExpectUrl(U, F) ==
    <<"http://">> \o MINIO_ENDPOINT \o <<"/">> \o MINIO_BUCKET_NAME
        \o <<"/">> \o ExpectKey(U, F)

\* the user a key belongs to: the text before its first "."
UserOfKey(k) == Split(k, 1, <<>>)[1]

KeysOf(u) == {k \in DOMAIN bucket : UserOfKey(k) = u}

Started == {c \in CallIds : calls[c].pc # "idle"}
Done == {c \in CallIds : calls[c].pc = "done"}

\* the orientation value resize_image sees: 0 when there is none
SeenOrientation(img) ==
    IF img.hasGetexif /\ img.exifDict
    THEN IF orientation \in DOMAIN img.exif THEN img.exif[orientation] ELSE 0
    ELSE 0

\* the angle the spec gives an orientation value: 0 for no rotation
ExpectAngle(o) ==
    IF o = 3 THEN 180 ELSE IF o = 6 THEN 270 ELSE IF o = 8 THEN 90 ELSE 0

\* the source's size once its orientation is corrected
OrientedSize(img) ==
    IF ExpectAngle(SeenOrientation(img)) \in {90, 270}
    THEN <<img.size[2], img.size[1]>>
    ELSE img.size

\* resize_image has returned an image
Produced == rz_out # <<>> /\ ~rz_out[1].raised

----------------------------------------------------------------------------
(* C1 *)

\* C1: allowed_file(F) is true iff F holds a "." and the lowercased text
\* after its last "." is png, jpg or jpeg; it is false for the empty filename
\* and for a filename with no "."; it always returns a boolean.
C1_AllowedIffSuffix ==
    af_ret # <<>> =>
        /\ af_ret[1] \in BOOLEAN
        /\ af_ret[1] <=> ExpectAllowed(af_name)
        /\ af_name = <<>> => ~af_ret[1]
        /\ (\A i \in 1..Len(af_name) : af_name[i] # ".") => ~af_ret[1]

\* an uppercase extension after the last of two dots is accepted
C1_Witness ==
    af_ret = <<TRUE>> /\ af_name = <<".", ".", "J", "p", "g">>

----------------------------------------------------------------------------
(* C2 *)

\* C2: an upload call whose filename the extension validator rejects returns
\* None without suspending, and fput_object is never invoked in that call.
C2_RejectedNeverStored ==
    \A c \in Started :
        ~ExpectAllowed(calls[c].filename) =>
            /\ calls[c].pc = "done"
            /\ calls[c].ret = None
            /\ calls[c].puts = <<>>
            /\ ~calls[c].stored

\* a call with a .txt filename and a call with no "." have returned
C2_Witness ==
    \E c, d \in Done :
        /\ calls[c].filename = <<"d", ".", "t", "x", "t">>
        /\ calls[d].filename = <<"x">>
        /\ calls[c].ret = None /\ calls[d].ret = None
        /\ minio_client = "client"

----------------------------------------------------------------------------
(* C3 *)

\* C3: if the client failed to initialize (the handle is None), the module
\* still loads and every upload call returns None at once: nothing written,
\* no normalization, no storage call.
C3_NoClientDegrades ==
    (minio_client = "None" /\ modpc \notin {"client", "bucket"}) =>
        /\ modpc = "loaded"
        /\ \A c \in Started :
              /\ calls[c].pc = "done"
              /\ calls[c].ret = None
              /\ calls[c].trace = <<"no_client">>

----------------------------------------------------------------------------
(* C4 *)

\* C4: an upload call in which persisting, normalization and the storage
\* write all succeed writes the object under "{U}.{lowercase E}" exactly once
\* and returns exactly "http://{endpoint}/{bucket}/{U}.{lowercase E}".
C4_StoredReturnsUrl ==
    \A c \in Done :
        calls[c].stored =>
            /\ calls[c].puts = <<ExpectKey(calls[c].user, calls[c].filename)>>
            /\ calls[c].ret = ExpectUrl(calls[c].user, calls[c].filename)

----------------------------------------------------------------------------
(* C5 *)

\* C5 as stated: the bucket holds at most one object per user identifier.
C5_OneObjectPerUser ==
    \A u \in Users : Cardinality(KeysOf(u)) <= 1

\* C5 as amended: the bucket holds at most one object per user identifier
\* and lowercase extension: the objects of a user are exactly the keys
\* "{U}.{ext}" of the lowercase extensions the user's stored uploads had, each
\* a normalized image, so that a re-upload with the same extension replaces.
C5_OneObjectPerUserAndExtension ==
    \A u \in Users :
        /\ KeysOf(u) =
             { ExpectKey(u, calls[c].filename) :
                 c \in {d \in Done : calls[d].stored /\ calls[d].user = u} }
        /\ Cardinality(KeysOf(u)) <= Cardinality(ALLOWED_EXTENSIONS)
        /\ \A k \in KeysOf(u) : bucket[k].kind = "norm"

\* two stored uploads of one user with the same extension left one object
C5_Witness ==
    \E c, d \in Done :
        /\ c # d
        /\ calls[c].stored /\ calls[d].stored
        /\ calls[c].user = calls[d].user
        /\ calls[c].puts = calls[d].puts
        /\ Cardinality(KeysOf(calls[c].user)) = 1

----------------------------------------------------------------------------
(* C6 *)

\* C6: upload never propagates an exception: a rejection, a failure to
\* persist, a decode or resize failure, an S3Error and an uninitialized client
\* all end with upload returning None.
C6_NeverRaises ==
    \A c \in Done :
        /\ calls[c].ret[1] # "raised"
        /\ calls[c].exc # "none" => calls[c].ret = None
        /\ calls[c].trace[1] \in {"rejected", "no_client"} => calls[c].ret = None
        /\ calls[c].ret # None => calls[c].ret[1] = "http://"

\* a call whose resize re-raised and a call whose storage write raised
\* S3Error have both returned None
C6_Witness ==
    \E c, d \in Done :
        /\ calls[c].exc = "UnidentifiedImageError" /\ calls[c].ret = None
        /\ calls[d].exc = "S3Error" /\ calls[d].ret = None

----------------------------------------------------------------------------
(* C7 *)

\* C7: within one call the steps occur in the order validate, persist,
\* normalize, storage write: fput_object is invoked only after the raw copy
\* was written and normalization succeeded, and never when persisting or
\* resizing failed.
C7_StoreAfterNormalize ==
    \A c \in Started :
        /\ calls[c].puts # <<>> =>
              /\ Len(calls[c].trace) >= 5
              /\ SubSeq(calls[c].trace, 1, 4) =
                     <<"validate", "open", "write", "normalize">>
              /\ calls[c].trace[5] \in {"store", "store_failed"}
        /\ (\E i \in 1..Len(calls[c].trace) :
                calls[c].trace[i] \in {"open_failed", "normalize_failed"})
              => (calls[c].puts = <<>> /\ ~calls[c].stored)

\* one call failed to open its raw file, one failed in resize_image
C7_Witness ==
    \E c, d \in Done :
        /\ calls[c].trace = <<"validate", "open_failed">>
        /\ calls[d].trace = <<"validate", "open", "write", "normalize_failed">>
        /\ calls[c].puts = <<>> /\ calls[d].puts = <<>>

----------------------------------------------------------------------------
(* C8 *)

\* C8 as stated: the image resize_image produces is never wider than W nor
\* taller than H, and never larger than the source in either dimension.
C8_FitsBoxAndSource ==
    Produced =>
        /\ rz_out[1].img.size[1] <= rz_in.box[1]
        /\ rz_out[1].img.size[2] <= rz_in.box[2]
        /\ rz_out[1].img.size[1] <= rz_in.img.size[1]
        /\ rz_out[1].img.size[2] <= rz_in.img.size[2]

\* C8 as amended: never wider than W nor taller than H, and never larger in
\* either dimension than the source as its EXIF orientation turns it (width
\* and height exchanged for the orientations 6 and 8).
C8_FitsBoxAndOrientedSource ==
    Produced =>
        /\ rz_out[1].img.size[1] <= rz_in.box[1]
        /\ rz_out[1].img.size[2] <= rz_in.box[2]
        /\ rz_out[1].img.size[1] <= OrientedSize(rz_in.img)[1]
        /\ rz_out[1].img.size[2] <= OrientedSize(rz_in.img)[2]
        /\ rz_out[1].img.size[1] >= 1
        /\ rz_out[1].img.size[2] >= 1

\* a 5x2 source with orientation 6 in a 3x3 box: turned to 2x5, saved as 1x3
C8_Witness ==
    /\ Produced
    /\ rz_in.img.size = <<5, 2>>
    /\ SeenOrientation(rz_in.img) = 6
    /\ rz_in.box = <<3, 3>>
    /\ rz_out[1].img.size = <<1, 3>>

----------------------------------------------------------------------------
(* C9 *)

\* C9 as stated: unless the source is smaller than the box in both
\* dimensions, one dimension of the output equals the box's; for a square box
\* a square source larger than the box yields WxH, a landscape source wider
\* than the box yields width W and a height below H, a portrait source taller
\* than the box yields height H and a width below W.
C9_TouchesBox ==
    Produced =>
        /\ ~(rz_in.img.size[1] < rz_in.box[1] /\ rz_in.img.size[2] < rz_in.box[2])
              => \/ rz_out[1].img.size[1] = rz_in.box[1]
                 \/ rz_out[1].img.size[2] = rz_in.box[2]
        /\ rz_in.box[1] = rz_in.box[2] =>
              /\ (/\ rz_in.img.size[1] = rz_in.img.size[2]
                  /\ rz_in.img.size[1] > rz_in.box[1])
                    => rz_out[1].img.size = rz_in.box
              /\ (/\ rz_in.img.size[1] > rz_in.img.size[2]
                  /\ rz_in.img.size[1] > rz_in.box[1])
                    => /\ rz_out[1].img.size[1] = rz_in.box[1]
                       /\ rz_out[1].img.size[2] < rz_in.box[2]
              /\ (/\ rz_in.img.size[2] > rz_in.img.size[1]
                  /\ rz_in.img.size[2] > rz_in.box[2])
                    => /\ rz_out[1].img.size[2] = rz_in.box[2]
                       /\ rz_out[1].img.size[1] < rz_in.box[1]

\* C9 as amended: with the source's dimensions taken after its EXIF
\* orientation is corrected, and "at most" for "below": unless the source is
\* smaller than the box in both dimensions, one dimension of the output
\* equals the box's; for a square box a square source larger than the box
\* yields WxH, a landscape source wider than the box yields width W and a
\* height of at most H, a portrait source taller than the box yields height H
\* and a width of at most W.
C9_TouchesBoxOriented ==
    Produced =>
        /\ ~(/\ OrientedSize(rz_in.img)[1] < rz_in.box[1]
             /\ OrientedSize(rz_in.img)[2] < rz_in.box[2])
              => \/ rz_out[1].img.size[1] = rz_in.box[1]
                 \/ rz_out[1].img.size[2] = rz_in.box[2]
        /\ rz_in.box[1] = rz_in.box[2] =>
              /\ (/\ OrientedSize(rz_in.img)[1] = OrientedSize(rz_in.img)[2]
                  /\ OrientedSize(rz_in.img)[1] > rz_in.box[1])
                    => rz_out[1].img.size = rz_in.box
              /\ (/\ OrientedSize(rz_in.img)[1] > OrientedSize(rz_in.img)[2]
                  /\ OrientedSize(rz_in.img)[1] > rz_in.box[1])
                    => /\ rz_out[1].img.size[1] = rz_in.box[1]
                       /\ rz_out[1].img.size[2] <= rz_in.box[2]
              /\ (/\ OrientedSize(rz_in.img)[2] > OrientedSize(rz_in.img)[1]
                  /\ OrientedSize(rz_in.img)[2] > rz_in.box[2])
                    => /\ rz_out[1].img.size[2] = rz_in.box[2]
                       /\ rz_out[1].img.size[1] <= rz_in.box[1]

\* a 4x3 landscape source without rotation in a 2x2 box is saved as 2x2
C9_Witness ==
    /\ Produced
    /\ rz_in.img.size = <<4, 3>>
    /\ SeenOrientation(rz_in.img) = 0
    /\ rz_in.box = <<2, 2>>
    /\ rz_out[1].img.size = <<2, 2>>

----------------------------------------------------------------------------
(* C10 *)

\* C10: the orientation value 3 rotates by 180, 6 by 270, 8 by 90, each
\* exactly once, with expand, before the downscale; the value 1, any other
\* value, an absent tag or absent EXIF data applies no rotation.
C10_ExifRotation ==
    rz_out # <<>> =>
        IF SeenOrientation(rz_in.img) \in {3, 6, 8}
        THEN /\ {i \in 1..Len(rz_out[1].img.ops) :
                    rz_out[1].img.ops[i][1] = "rotate"} = {1}
             /\ rz_out[1].img.ops[1] =
                    <<"rotate", ExpectAngle(SeenOrientation(rz_in.img)), 1>>
             /\ rz_out[1].img.ops[2][1] = "thumbnail"
             /\ rz_out[1].img.rot = ExpectAngle(SeenOrientation(rz_in.img))
             /\ ~rz_out[1].img.cropped
        ELSE /\ \A i \in 1..Len(rz_out[1].img.ops) :
                    rz_out[1].img.ops[i][1] # "rotate"
             /\ rz_out[1].img.rot = 0

\* a 2x1 source with orientation 6 was turned by 270 degrees into 1x2
C10_Witness ==
    /\ Produced
    /\ SeenOrientation(rz_in.img) = 6
    /\ rz_in.img.size = <<2, 1>>
    /\ rz_in.box = <<3, 3>>
    /\ rz_out[1].img.rot = 270
    /\ rz_out[1].img.size = <<1, 2>>


----------------------------------------------------------------------------
(* C11 *)

\* the source has an alpha channel: its mode ends with the band "A"
HasAlpha(mode) == Len(mode) > 0 /\ mode[Len(mode)] = "A"

\* C11: for every input image with an alpha channel resize_image produces an
\* image whose mode has no alpha channel: the pixels composited onto an opaque
\* white background of the same size, with the alpha channel as mask.
C11_AlphaFlattened ==
    (rz_out # <<>> /\ HasAlpha(rz_in.img.mode)) =>
        /\ ~rz_out[1].raised
        /\ ~HasAlpha(rz_out[1].img.mode)
        /\ rz_out[1].img.mode = SubSeq(rz_in.img.mode, 1, Len(rz_in.img.mode) - 1)
        /\ rz_out[1].img.white
        /\ rz_out[1].img.mask = "A"
        /\ rz_out[1].img.size =
              thumbnail_size(OrientedSize(rz_in.img), rz_in.box)

----------------------------------------------------------------------------
(* C12 *)

\* C12: the bucket is checked and created lazily: no bucket_exists or
\* make_bucket call happens before the first upload call, and the bucket has
\* been checked or created before the first object write.
C12_LazyBucket ==
    /\ Started = {} => srvlog = <<>>
    /\ (\E c \in Started : calls[c].puts # <<>>) => srvlog # <<>>

----------------------------------------------------------------------------
(* C13 *)

\* the transient paths of call c
RawPath(c) == file_path_of(calls[c].filename)
NormPath(c) == output_path_of(RawPath(c), calls[c].user)

\* the last step of a call that has returned
LastStep(self) == self.trace[Len(self.trace)]

\* C13: when an upload call returns a URL, neither its raw nor its
\* normalized transient copy exists afterwards; when a call that wrote the raw
\* copy fails in normalization or in the storage write, it removes nothing:
\* the copies it wrote are left in place.
C13_CleanupOnSuccessOnly ==
    [][\A c \in CallIds :
         (calls[c].pc = "reading" /\ calls'[c].pc = "done") =>
            /\ calls'[c].ret # None =>
                  /\ RawPath(c) \notin DOMAIN fs'
                  /\ NormPath(c) \notin DOMAIN fs'
            /\ LastStep(calls'[c]) \in {"normalize_failed", "store_failed"} =>
                  /\ DOMAIN fs \subseteq DOMAIN fs'
                  /\ calls[c].linked =>
                        /\ RawPath(c) \in DOMAIN fs'
                        /\ fs'[RawPath(c)].src = c
                  /\ LastStep(calls'[c]) = "store_failed" =>
                        /\ NormPath(c) \in DOMAIN fs'
                        /\ fs'[NormPath(c)].kind = "norm"]_vars

\* one call has returned its URL and left nothing, another has failed in the
\* storage write and left both copies
C13_Witness ==
    \E c, d \in Done :
        /\ calls[c].ret # None
        /\ RawPath(c) \notin DOMAIN fs
        /\ NormPath(c) \notin DOMAIN fs
        /\ LastStep(calls[d]) = "store_failed"
        /\ RawPath(d) \in DOMAIN fs
        /\ NormPath(d) \in DOMAIN fs
        /\ fs[RawPath(d)].kind = "img"

----------------------------------------------------------------------------
(* C14 *)

\* the calls suspended at "await file.read()"
Reading == {c \in CallIds : calls[c].pc = "reading"}

\* C14: every transient path of an upload call is named from the user
\* identifier, so calls that run concurrently for different users have no
\* transient path in common and never remove each other's files, whatever
\* their filenames.
C14_PathsPerUser ==
    /\ \A c, d \in Reading :
          calls[c].user # calls[d].user =>
              {RawPath(c), NormPath(c)} \cap {RawPath(d), NormPath(d)} = {}
    /\ \A c \in Reading :
          ~calls[c].linked =>
              \E d \in Done : calls[d].user = calls[c].user

----------------------------------------------------------------------------
(* C15 *)

\* C15: a call that returns None has written no object to the bucket: when
\* the storage write of a call succeeds the call returns the URL, also when
\* the filename is "{user_id}.{ext}" and both transient paths coincide.
C15_NoneMeansNotStored ==
    \A c \in Done :
        /\ calls[c].ret = None => ~calls[c].stored
        /\ calls[c].stored =>
              calls[c].ret = ExpectUrl(calls[c].user, calls[c].filename)

----------------------------------------------------------------------------
(* C16 *)

\* every step of call c succeeds when the call runs alone: the filename is
\* allowed, the raw file can be created, the bytes are an image, and the raw
\* and the normalized path differ (C4)
SucceedsAlone(c) ==
    /\ allowed_file(calls[c].filename)
    /\ ~OpenFails(calls[c].filename)
    /\ calls[c].data = "img"
    /\ RawPath(c) # NormPath(c)

\* C16: in every interleaving of concurrent upload calls the object under a
\* key "{U}.{ext}" is the normalization of bytes submitted in a call for user
\* U, and a call whose own steps would all succeed when run alone is not made
\* to fail by another call: it returns None only when the storage service
\* refused its write.
C16_NoInterference ==
    /\ \A k \in DOMAIN bucket :
          /\ bucket[k].kind = "norm"
          /\ calls[bucket[k].src].user = UserOfKey(k)
    /\ \A c \in Done :
          (SucceedsAlone(c) /\ calls[c].exc # "S3Error") =>
              calls[c].ret = ExpectUrl(calls[c].user, calls[c].filename)
============================================================================
